---- MODULE Spec2Model ----
\* A model of psptool/blob.py: the construction of a Blob over a raw firmware
\* image.  Blob.__init__ extracts the AGESA version, locates and delimits the
\* Firmware Entry Table (FET), shifts the buffer origin and walks the FET,
\* appending Directory and Firmware objects.
\*
\* Bytes are 0..255.  An image is kept as [pre, body, post]: `pre` zero bytes,
\* then the bytes of `body`, then `post` zero bytes, so that an image whose FET
\* sits at 0x20000 needs no 128 KiB sequence.  A little-endian 32-bit word is
\* kept as [hi, lo] (its top byte and its low 24 bits): 0xFF000000 does not fit
\* the 32-bit signed integers of the model checker.
EXTENDS Integers, Sequences, FiniteSets, TLC

VARIABLES
    buffer,               \* the raw image handed to Blob(buffer, size)
    secondary,            \* what Directory objects expose as secondary address
    pc,                   \* position inside Blob.__init__
    directories,          \* self.directories
    firmwares,            \* self.firmwares
    unique_entries,       \* self.unique_entries
    fet_offset,           \* local of _find_entry_table
    fet_size,             \* local of _find_entry_table
    buffer_offset,        \* self.buffer_offset
    firmware_entry_table, \* self.firmware_entry_table
    index,                \* loop index of _parse_entry_table
    window,               \* local `directory` of _parse_entry_table (the slice)
    warnings,             \* calls of utils.print_warning
    errors,               \* calls of utils.print_error_and_exit
    lookup                \* last call of get_entry_by_type and its result

vars == <<buffer, secondary, pc, directories, firmwares, unique_entries,
          fet_offset, fet_size, buffer_offset, firmware_entry_table, index,
          window, warnings, errors, lookup>>

-----------------------------------------------------------------------------
\* Program constants

_FIRMWARE_ENTRY_TABLE_BASE_ADDRESS == 131072

WindowLen == 128

_FIRMWARE_ENTRY_MAGIC == <<170, 85, 170, 85>>

FFWord == <<255, 255, 255, 255>>

_FIRMWARE_ENTRY_TYPES == <<"IMC", "GMC", "XHCI", "PSP_DIR", "PSP_NEW", "BHD">>

MagicPSP == <<36, 80, 83, 80>>

MagicBHD == <<36, 66, 72, 68>>

Magic2PSP == <<50, 80, 83, 80>>

Pow24 == 16777216

None == -1

NoWindow == <<-1>>

NoTable == [present |-> FALSE, size |-> 0, offset |-> 0]

-----------------------------------------------------------------------------
\* Bounds of the model

MaxEntries == 7

MaxUntermEntries == 1

ScanSlack == 8

-----------------------------------------------------------------------------
\* The raw buffer and Python's slicing of it

BufLen == buffer.pre + Len(buffer.body) + buffer.post

BufByte(i) ==
    IF i >= buffer.pre /\ i < buffer.pre + Len(buffer.body)
    THEN buffer.body[i - buffer.pre + 1]
    ELSE 0

\* Python's normalisation of a slice bound against a sequence of length n
SliceBound(x, n) ==
    IF x < 0 THEN (IF x + n < 0 THEN 0 ELSE x + n)
    ELSE IF x > n THEN n ELSE x

\* bytearray.__getitem__(slice(a, b)) of the raw buffer
RawSlice(a, b) ==
    LET s == SliceBound(a, BufLen)
        e == SliceBound(b, BufLen)
    IN  [k \in 1..(IF e > s THEN e - s ELSE 0) |-> BufByte(s + k - 1)]

\* NestedBuffer.__getitem__(slice(a, b)) of a window at `offset` of the raw buffer
NestedSlice(offset, a, b) == RawSlice(a + offset, b + offset)

\* bytes[a:b] of a bytes value with 0 <= a <= b
BytesSlice(seq, a, b) ==
    LET s == SliceBound(a, Len(seq))
        e == SliceBound(b, Len(seq))
    IN  IF e > s THEN SubSeq(seq, s + 1, e) ELSE <<>>

\* utils.chunker(seq, size)
Chunker(seq, size) ==
    [k \in 1..((Len(seq) + size - 1) \div size) |->
        BytesSlice(seq, (k - 1) * size, k * size)]

\* struct.unpack('<I', chunk)[0], defined for 4 bytes only
Unpack(chunk) ==
    [hi |-> chunk[4], lo |-> chunk[1] + 256 * chunk[2] + 65536 * chunk[3]]

CanUnpack(chunk) == Len(chunk) = 4

Mask24_TooWide(word) == (word.hi % 16) * Pow24 + word.lo

\* value & 0x00FFFFFF
Mask24(word) == word.lo

-----------------------------------------------------------------------------
\* The images the model is run on.  An image holds, from its start: `pre` zero
\* bytes, a bare AA 55 AA 55 with no FF word before it, the word that precedes
\* the table (FF FF FF FF, or zeros when the image holds no table), the
\* signature, the entries, the terminator (or none), five headers and `post`
\* zero bytes.  Offsets named Rel... count from the signature.

Kinds == {"zero", "hizero", "psp", "bhd", "other", "combo", "tail", "beyond"}

Zeros(n) == [k \in 1..n |-> 0]

LE32(word) ==
    <<word.lo % 256, (word.lo \div 256) % 256, word.lo \div 65536, word.hi>>

Logical(rel) == _FIRMWARE_ENTRY_TABLE_BASE_ADDRESS + rel

SlotsAt(n, hasTerm) == 4 + 4 * n + (IF hasTerm THEN 4 ELSE 0)

RelPSP(n, hasTerm) == SlotsAt(n, hasTerm)

RelBHD(n, hasTerm) == SlotsAt(n, hasTerm) + 8

RelOther(n, hasTerm) == SlotsAt(n, hasTerm) + 16

RelCombo(n, hasTerm) == SlotsAt(n, hasTerm) + 24

RelTail(n, hasTerm) == SlotsAt(n, hasTerm) + 84

KindWord(kind, n, hasTerm) ==
    CASE kind = "zero"   -> [hi |-> 0,   lo |-> 0]
      [] kind = "hizero" -> [hi |-> 255, lo |-> 0]
      [] kind = "psp"    -> [hi |-> 255, lo |-> Logical(RelPSP(n, hasTerm))]
      [] kind = "bhd"    -> [hi |-> 0,   lo |-> Logical(RelBHD(n, hasTerm))]
      [] kind = "other"  -> [hi |-> 0,   lo |-> Logical(RelOther(n, hasTerm))]
      [] kind = "combo"  -> [hi |-> 255, lo |-> Logical(RelCombo(n, hasTerm))]
      [] kind = "tail"   -> [hi |-> 0,   lo |-> Logical(RelTail(n, hasTerm))]
      [] kind = "beyond" -> [hi |-> 0,   lo |-> Pow24 - 16]

EntryBytes(kinds, hasTerm) ==
    [k \in 1..(4 * Len(kinds)) |->
        LE32(KindWord(kinds[((k - 1) \div 4) + 1], Len(kinds), hasTerm))[((k - 1) % 4) + 1]]

Slots(n, hasTerm) ==
    MagicPSP \o Zeros(4)
    \o MagicBHD \o Zeros(4)
    \o <<1, 2, 3, 4>> \o Zeros(4)
    \o Magic2PSP \o Zeros(36)
       \o LE32([hi |-> 255, lo |-> Logical(RelPSP(n, hasTerm))]) \o Zeros(12)
       \o LE32([hi |-> 0, lo |-> Logical(RelBHD(n, hasTerm))])
    \o Magic2PSP

Image(fet, hasFF, kinds, hasTerm, post) ==
    [pre  |-> fet - 12,
     body |-> _FIRMWARE_ENTRY_MAGIC \o Zeros(4)
              \o (IF hasFF THEN FFWord ELSE Zeros(4))
              \o _FIRMWARE_ENTRY_MAGIC
              \o EntryBytes(kinds, hasTerm)
              \o (IF hasTerm THEN FFWord ELSE <<>>)
              \o Slots(Len(kinds), hasTerm),
     post |-> post]

\* the entry lists of length n: zero entries, then one entry of any kind, or
\* (for the shortest and the longest tables) two entries of any kinds
EntryLists(n) ==
    IF n = 0 THEN {<<>>}
    ELSE IF n = 2 \/ n = MaxEntries
    THEN {[i \in 1..n |-> IF i = n - 1 THEN p[1] ELSE IF i = n THEN p[2] ELSE "zero"] :
            p \in Kinds \X Kinds}
    ELSE {[i \in 1..n |-> IF i = n THEN k ELSE "zero"] : k \in Kinds}

FetOffsets == {13, _FIRMWARE_ENTRY_TABLE_BASE_ADDRESS, _FIRMWARE_ENTRY_TABLE_BASE_ADDRESS + 16}

Posts == {0, WindowLen}

\* what the Directory objects of an image expose: the addresses of the
\* directories that carry a secondary-directory address, and that address
SecondaryChoices(n, hasTerm) ==
    {[exposers |-> {}, target |-> 0],
     [exposers |-> {Logical(RelPSP(n, hasTerm))},
      target   |-> Logical(RelBHD(n, hasTerm))],
     [exposers |-> {0, Logical(RelPSP(n, hasTerm)), Logical(RelBHD(n, hasTerm))},
      target   |-> Logical(RelOther(n, hasTerm))]}

\* images with a terminated table: every offset, tail and entry list
TerminatedInputs ==
    UNION {
        {[buffer |-> Image(f, TRUE, ks, TRUE, post), secondary |-> sec] :
            f \in FetOffsets, post \in Posts, ks \in EntryLists(n),
            sec \in SecondaryChoices(n, TRUE)} : n \in 0..MaxEntries}

\* images whose table runs into the headers and to the end of the buffer
UnterminatedInputs ==
    UNION {
        {[buffer |-> Image(f, TRUE, ks, FALSE, post), secondary |-> sec] :
            f \in FetOffsets, post \in {0, 2}, ks \in EntryLists(n),
            sec \in {[exposers |-> {}, target |-> 0]}} : n \in 0..MaxUntermEntries}

\* images without FF FF FF FF AA 55 AA 55
NoTableInputs ==
    UNION {
        {[buffer |-> Image(f, FALSE, ks, t, post), secondary |-> sec] :
            f \in FetOffsets, post \in Posts, ks \in EntryLists(n), t \in BOOLEAN,
            sec \in {[exposers |-> {}, target |-> 0]}} : n \in 0..MaxUntermEntries}

Inputs == TerminatedInputs \cup UnterminatedInputs \cup NoTableInputs

-----------------------------------------------------------------------------
\* The collaborators the core constructs

\* Directory.secondary_directory_address of the directory at `address`
SecondaryDirectoryAddress(address) ==
    IF address \in secondary.exposers THEN secondary.target ELSE None

\* Directory(self, address, type_): `parent_offset` is the origin of the owner
\* window (self.buffer_offset when the object is constructed)
Directory(address, type_) ==
    [address |-> address, type |-> type_,
     secondary_directory_address |-> SecondaryDirectoryAddress(address),
     parent_offset |-> buffer_offset]

\* Firmware(self, address, type_, magic)
Firmware(address, type_, magic) ==
    [address |-> address, type |-> type_, magic |-> magic,
     parent_offset |-> buffer_offset]

EntryTypeNames ==
    {"IMC", "GMC", "XHCI", "PSP_DIR", "PSP_NEW", "BHD", "unknown", "secondary"}

-----------------------------------------------------------------------------
\* Blob.__init__

Init ==
    /\ \E inp \in Inputs : buffer = inp.buffer /\ secondary = inp.secondary
    /\ pc = "agesa"
    /\ directories = <<>>
    /\ firmwares = <<>>
    /\ unique_entries = {}
    /\ fet_offset = 0
    /\ fet_size = 0
    /\ buffer_offset = 0
    /\ firmware_entry_table = NoTable
    /\ index = 0
    /\ window = NoWindow
    /\ warnings = 0
    /\ errors = 0
    /\ lookup = [type |-> "", result |-> <<>>]

\* _parse_agesa_version: reads the buffer and sets agesa_version only; the
\* version string is not part of the state kept here
ParseAgesaVersion ==
    /\ pc = "agesa"
    /\ pc' = "find"
    /\ UNCHANGED <<buffer, secondary, directories, firmwares, unique_entries,
                   fet_offset, fet_size, buffer_offset, firmware_entry_table,
                   index, window, warnings, errors, lookup>>

\* the pattern b'\xff\xff\xff\xff' + _FIRMWARE_ENTRY_MAGIC at raw offset p
PatternAt(p) ==
    /\ p >= 0
    /\ p + 8 <= BufLen
    /\ \A k \in 0..3 : BufByte(p + k) = FFWord[k + 1]
    /\ \A k \in 0..3 : BufByte(p + 4 + k) = _FIRMWARE_ENTRY_MAGIC[k + 1]

\* the offsets re.search can match at: the pattern holds no zero byte, so a
\* match lies inside the body of the image
MatchRange == buffer.pre .. (buffer.pre + Len(buffer.body) - 8)

BareMagicAt(p) ==
    /\ p >= 0
    /\ p + 8 <= BufLen
    /\ \A k \in 0..3 : BufByte(p + 4 + k) = _FIRMWARE_ENTRY_MAGIC[k + 1]

SearchStart_BareMagic ==
    IF \E p \in (buffer.pre - 4) .. (buffer.pre + Len(buffer.body) - 8) : BareMagicAt(p)
    THEN CHOOSE p \in (buffer.pre - 4) .. (buffer.pre + Len(buffer.body) - 8) :
            BareMagicAt(p) /\ \A q \in (buffer.pre - 4) .. (buffer.pre + Len(buffer.body) - 8) : q < p => ~BareMagicAt(q)
    ELSE None

\* m = re.search(...): m.start() of the first match, None when there is none
SearchStart ==
    IF \E p \in MatchRange : PatternAt(p)
    THEN CHOOSE p \in MatchRange :
            PatternAt(p) /\ \A q \in MatchRange : q < p => ~PatternAt(q)
    ELSE None

\* utils.print_error_and_exit: reports and terminates the process
PrintErrorAndExit ==
    /\ errors' = errors + 1
    /\ pc' = "exited"

\* utils.print_warning: reports and returns
PrintWarning == warnings' = warnings + 1

\* _find_entry_table, lines 59-65: the search and the start of the size scan
FindEntryTable ==
    /\ pc = "find"
    /\ IF SearchStart = None
       THEN /\ PrintErrorAndExit
            /\ UNCHANGED <<fet_offset, fet_size>>
       ELSE /\ fet_offset' = SearchStart + 4
            /\ fet_size' = 0
            /\ pc' = "scan"
            /\ UNCHANGED errors
    /\ UNCHANGED <<buffer, secondary, directories, firmwares, unique_entries,
                   buffer_offset, firmware_entry_table, index, window,
                   warnings, lookup>>

\* the loop condition of line 66
ScanCondition == fet_offset <= BufLen - 4

\* the word test of line 67
ScanWordIsTerminator ==
    NestedSlice(buffer_offset, fet_offset + fet_size, fet_offset + fet_size + 4) = FFWord

\* one iteration of the while loop of lines 66-70; the loop leaves only by
\* its break or when ScanCondition fails.  The guard on fet_size caps a scan
\* that runs past the end of the buffer.
ScanStep ==
    /\ pc = "scan"
    /\ fet_size < BufLen - fet_offset + ScanSlack
    /\ IF ScanCondition /\ ~ScanWordIsTerminator
       THEN /\ fet_size' = fet_size + 4
            /\ pc' = "scan"
       ELSE /\ pc' = "shift"
            /\ UNCHANGED fet_size
    /\ UNCHANGED <<buffer, secondary, directories, firmwares, unique_entries,
                   fet_offset, buffer_offset, firmware_entry_table, index,
                   window, warnings, errors, lookup>>

RomOffset_FromMatchStart == (fet_offset - 4) - _FIRMWARE_ENTRY_TABLE_BASE_ADDRESS

\* rom_offset of line 74
RomOffset == fet_offset - _FIRMWARE_ENTRY_TABLE_BASE_ADDRESS

TableSize_WithoutSignature == fet_size - 4

\* the size handed to the table's NestedBuffer at line 82
TableSize == fet_size

\* _find_entry_table, lines 74-82: the warning, the shift and the table window
ShiftBuffer ==
    /\ pc = "shift"
    /\ IF RomOffset # 0 THEN PrintWarning ELSE UNCHANGED warnings
    /\ buffer_offset' = RomOffset
    /\ firmware_entry_table' =
          [present |-> TRUE, size |-> TableSize,
           offset |-> _FIRMWARE_ENTRY_TABLE_BASE_ADDRESS]
    /\ pc' = "walk"
    /\ UNCHANGED <<buffer, secondary, directories, firmwares, unique_entries,
                   fet_offset, fet_size, index, window, errors, lookup>>

-----------------------------------------------------------------------------
\* _parse_entry_table

\* self.firmware_entry_table[4:]: the table window's slice, resolved by the
\* table's own offset and then by the Blob's
TableBytes ==
    NestedSlice(buffer_offset,
                4 + firmware_entry_table.offset,
                firmware_entry_table.size + firmware_entry_table.offset)

\* entries = utils.chunker(self.firmware_entry_table[4:], 4)
Entries == Chunker(TableBytes, 4)

\* firmware_type of line 88, for the 0-based index i
FirmwareType(i) ==
    IF i < Len(_FIRMWARE_ENTRY_TYPES) THEN _FIRMWARE_ENTRY_TYPES[i + 1] ELSE "unknown"

\* address of line 89
EntryAddress(entry) == Mask24(Unpack(entry))

IsValidAddress_NotNone(address) == address # None

\* the test of line 92
IsValidAddress(address) == address # 0

IsDirectoryMagic_PspOnly(magic) == magic = MagicPSP

\* the test of line 97
IsDirectoryMagic(magic) == magic \in {MagicPSP, MagicBHD}

\* the test of line 107
IsComboMagic(magic) == magic = Magic2PSP

\* lines 108-109 need 4 bytes at [40, 44) and at [56, 60) of the window
CanUnpackCombo(w) ==
    CanUnpack(BytesSlice(w, 10 * 4, 10 * 4 + 4)) /\ CanUnpack(BytesSlice(w, 14 * 4, 14 * 4 + 4))

ComboAddresses_Swapped(w) ==
    <<Mask24(Unpack(BytesSlice(w, 14 * 4, 14 * 4 + 4))),
      Mask24(Unpack(BytesSlice(w, 10 * 4, 10 * 4 + 4)))>>

\* [psp_dir_one_addr, psp_dir_two_addr] of lines 108-111
ComboAddresses(w) ==
    <<Mask24(Unpack(BytesSlice(w, 10 * 4, 10 * 4 + 4))),
      Mask24(Unpack(BytesSlice(w, 14 * 4, 14 * 4 + 4)))>>

\* lines 98-104 and 112-118: the Directory at `address`, and the Directory it
\* names as secondary when it names one
DirectoryAndSecondary(address, type_) ==
    LET directory == Directory(address, type_)
    IN  IF directory.secondary_directory_address # None
        THEN <<directory, Directory(directory.secondary_directory_address, "secondary")>>
        ELSE <<directory>>

\* one iteration of the for loop of lines 87-123; struct.error ends the parse
ParseEntry ==
    /\ pc = "walk"
    /\ index < Len(Entries)
    /\ LET entry == Entries[index + 1]
           firmware_type == FirmwareType(index)
       IN  IF ~CanUnpack(entry)
           THEN /\ pc' = "crashed"
                /\ UNCHANGED <<index, window, directories, firmwares>>
           ELSE LET address == EntryAddress(entry)
                    directory == NestedSlice(buffer_offset, address, address + WindowLen)
                    magic == BytesSlice(directory, 0, 4)
                IN  IF ~IsValidAddress(address)
                    THEN /\ index' = index + 1
                         /\ UNCHANGED <<pc, window, directories, firmwares>>
                    ELSE /\ window' = directory
                         /\ IF IsDirectoryMagic(magic)
                            THEN /\ directories' =
                                      directories \o DirectoryAndSecondary(address, firmware_type)
                                 /\ index' = index + 1
                                 /\ UNCHANGED <<pc, firmwares>>
                            ELSE IF IsComboMagic(magic)
                            THEN IF CanUnpackCombo(directory)
                                 THEN /\ directories' =
                                           directories
                                           \o DirectoryAndSecondary(ComboAddresses(directory)[1],
                                                                    firmware_type)
                                           \o DirectoryAndSecondary(ComboAddresses(directory)[2],
                                                                    firmware_type)
                                      /\ index' = index + 1
                                      /\ UNCHANGED <<pc, firmwares>>
                                 ELSE /\ pc' = "crashed"
                                      /\ UNCHANGED <<index, directories, firmwares>>
                            ELSE /\ firmwares' =
                                      Append(firmwares, Firmware(address, firmware_type, magic))
                                 /\ index' = index + 1
                                 /\ UNCHANGED <<pc, directories>>
    /\ UNCHANGED <<buffer, secondary, unique_entries, fet_offset, fet_size,
                   buffer_offset, firmware_entry_table, warnings, errors, lookup>>

\* the for loop is exhausted: _parse_entry_table and __init__ return
ParseEntryTableReturn ==
    /\ pc = "walk"
    /\ index = Len(Entries)
    /\ pc' = "done"
    /\ UNCHANGED <<buffer, secondary, directories, firmwares, unique_entries,
                   fet_offset, fet_size, buffer_offset, firmware_entry_table,
                   index, window, warnings, errors, lookup>>

-----------------------------------------------------------------------------
\* get_entry_by_type

NotFound == <<>>

LookupCollection_Directories == {directories[i] : i \in 1..Len(directories)}

\* the collection line 126 iterates
LookupCollection == unique_entries

\* lines 126-129: an entry of the collection with that type, or None
EntryByType(type_) ==
    IF \E entry \in LookupCollection : entry.type = type_
    THEN <<CHOOSE entry \in LookupCollection : entry.type = type_>>
    ELSE NotFound

GetEntryByType(type_) ==
    /\ pc = "done"
    /\ lookup' = [type |-> type_, result |-> EntryByType(type_)]
    /\ UNCHANGED <<buffer, secondary, pc, directories, firmwares, unique_entries,
                   fet_offset, fet_size, buffer_offset, firmware_entry_table,
                   index, window, warnings, errors>>

-----------------------------------------------------------------------------

Next ==
    \/ ParseAgesaVersion
    \/ FindEntryTable
    \/ ScanStep
    \/ ShiftBuffer
    \/ ParseEntry
    \/ ParseEntryTableReturn
    \/ \E type_ \in EntryTypeNames : GetEntryByType(type_)

Spec == Init /\ [][Next]_vars

-----------------------------------------------------------------------------
\* What an image holds, read from its bytes alone: the claims are stated
\* against these, not against the operators of the parse.

\* FF FF FF FF AA 55 AA 55 stands at raw offset p
ImagePatternAt(p) ==
    /\ BufByte(p) = 255
    /\ [k \in 1..8 |-> BufByte(p + k - 1)] = <<255, 255, 255, 255, 170, 85, 170, 85>>

ImageMatches ==
    {p \in buffer.pre .. (buffer.pre + Len(buffer.body) - 8) : ImagePatternAt(p)}

ImageHasTable == ImageMatches # {}

\* F: the raw offset of the signature of the first occurrence
ImageFet ==
    LET matches == ImageMatches
    IN  4 + CHOOSE p \in matches : \A q \in matches : p <= q

\* the raw bytes [p, p + n) that lie inside the buffer
ImageBytes(p, n) ==
    LET m == IF p >= BufLen THEN 0 ELSE IF p + n > BufLen THEN BufLen - p ELSE n
    IN  [k \in 1..m |-> BufByte(p + k - 1)]

\* the k-th word (k = 0 is the signature) on the 4-byte stride from f
ImageWord(f, k) == ImageBytes(f + 4 * k, 4)

\* the table at f holds exactly n entries and a terminator after them
ImageTableHas(f, n) ==
    /\ \A k \in 1..n : ImageWord(f, k) # FFWord
    /\ ImageWord(f, n + 1) = FFWord

\* the low 24 bits of the i-th entry (0-based) of the table at f
ImageEntryAddress(f, i) ==
    LET w == ImageWord(f, i + 1) IN w[1] + 256 * w[2] + 65536 * w[3]

\* the label of the i-th entry
ImageLabel(i) ==
    CASE i = 0 -> "IMC" [] i = 1 -> "GMC" [] i = 2 -> "XHCI" [] i = 3 -> "PSP_DIR"
      [] i = 4 -> "PSP_NEW" [] i = 5 -> "BHD" [] OTHER -> "unknown"

Parsed == pc \in {"walk", "done", "crashed"}

MaxImageEntries == Len(buffer.body) \div 4

-----------------------------------------------------------------------------
\* C3: when the first FF FF FF FF AA 55 AA 55 is followed by N entries, none
\* of them FF FF FF FF, and then by FF FF FF FF, the Firmware Entry Table window
\* is 4 * (N + 1) bytes long, the walker is handed exactly N entries of 4
\* bytes, and a walk that returns has visited N entries.
C3_TableSize ==
    (Parsed /\ ImageHasTable) =>
        LET f == ImageFet
            entries == Entries
        IN  \A n \in 0..MaxImageEntries :
                ImageTableHas(f, n) =>
                    /\ firmware_entry_table.present
                    /\ firmware_entry_table.size = 4 * (n + 1)
                    /\ Len(entries) = n
                    /\ \A k \in 1..n : entries[k] = ImageWord(f, k)
                    /\ index <= n
                    /\ (pc = "done" => index = n)

C3_Witness ==
    /\ pc = "done"
    /\ ImageHasTable
    /\ ImageTableHas(ImageFet, 3)
    /\ index = 3
    /\ firmware_entry_table.size = 16

\* the corrected frame, and the window an entry is inspected through
C4_Frame ==
    (Parsed /\ ImageHasTable) =>
        LET f == ImageFet
        IN  /\ buffer_offset = f - 131072
            /\ warnings = (IF f = 131072 THEN 0 ELSE 1)
            /\ firmware_entry_table.offset = 131072
            /\ \A k \in 0..3 :
                  BufByte(firmware_entry_table.offset + buffer_offset + k)
                     = _FIRMWARE_ENTRY_MAGIC[k + 1]

C4_Resolve ==
    (pc = "walk" /\ pc' # "done" /\ ImageEntryAddress(ImageFet, index) # 0) =>
        LET f == ImageFet
        IN  window' = ImageBytes(ImageEntryAddress(f, index) + (f - 131072), 128)

-----------------------------------------------------------------------------
\* The objects the claims expect, written out from the image

\* the frame an object is constructed in: the corrected origin F - 0x20000
ExpectedOrigin == ImageFet - 131072

ExpectedDirectory(address, label) ==
    [address |-> address, type |-> label,
     secondary_directory_address |->
        IF address \in secondary.exposers THEN secondary.target ELSE -1,
     parent_offset |-> ExpectedOrigin]

\* a Directory, and right after it the "secondary" one it exposes, if any
ExpectedDirectories(address, label) ==
    IF address \in secondary.exposers
    THEN <<ExpectedDirectory(address, label),
           ExpectedDirectory(secondary.target, "secondary")>>
    ELSE <<ExpectedDirectory(address, label)>>

ExpectedFirmware(address, label, magic) ==
    [address |-> address, type |-> label, magic |-> magic,
     parent_offset |-> ExpectedOrigin]

\* a step of the walker over the entry at `index`
WalkerStep == pc = "walk" /\ pc' # "done"

\* what a step of the walker over a non-zero entry appends
C1_Step ==
    WalkerStep =>
        LET f == ImageFet
            address == ImageEntryAddress(f, index)
            label == ImageLabel(index)
            magic == ImageBytes(address + (f - 131072), 4)
        IN  address # 0 =>
              /\ magic \in {MagicPSP, MagicBHD} =>
                    /\ directories' = directories \o ExpectedDirectories(address, label)
                    /\ firmwares' = firmwares
              /\ magic \notin {MagicPSP, MagicBHD, Magic2PSP} =>
                    /\ firmwares' = Append(firmwares, ExpectedFirmware(address, label, magic))
                    /\ directories' = directories
              /\ ~(directories' # directories /\ firmwares' # firmwares)

\* C1: an entry with a non-zero masked address is classified by the 4 bytes at
\* that address alone.  '$PSP' or '$BHD': Directory(address, positional label)
\* is appended, then Directory(secondary address, 'secondary') exactly when
\* the first exposes one, and firmwares is untouched.  Anything but '$PSP',
\* '$BHD', '2PSP': one Firmware(address, positional label, magic) is appended
\* and directories is untouched.  No entry appends to both collections.
C1_Classification == [][C1_Step]_vars

C1_Witness ==
    /\ pc = "done"
    /\ Len(directories) = 2
    /\ directories[1].type = "BHD"
    /\ directories[2].type = "secondary"
    /\ Len(firmwares) = 1
    /\ firmwares[1].type = "unknown"
    /\ firmwares[1].magic = <<1, 2, 3, 4>>

\* what a step of the walker over a combo entry appends
C2_Step ==
    WalkerStep =>
        LET f == ImageFet
            address == ImageEntryAddress(f, index)
            label == ImageLabel(index)
            w == ImageBytes(address + (f - 131072), 128)
        IN  (address # 0 /\ Len(w) >= 60 /\ SubSeq(w, 1, 4) = Magic2PSP) =>
              LET one == w[41] + 256 * w[42] + 65536 * w[43]
                  two == w[57] + 256 * w[58] + 65536 * w[59]
                  added == ExpectedDirectories(one, label) \o ExpectedDirectories(two, label)
              IN  /\ firmwares' = firmwares
                  /\ directories' = directories \o added
                  /\ Len(added) \in 2..4
                  /\ (Len(added) = 4 <=>
                        (one \in secondary.exposers /\ two \in secondary.exposers))

C8_Step ==
    (WalkerStep /\ ImageEntryAddress(ImageFet, index) = 0) =>
        /\ directories' = directories
        /\ firmwares' = firmwares
        /\ warnings' = warnings
        /\ errors' = errors
        /\ window' = window
        /\ pc' = "walk"
        /\ index' = index + 1

\* C8: an entry whose value masked with 0x00FFFFFF is 0, whatever its high
\* byte, appends nothing to directories or firmwares, prints nothing, inspects
\* no window, and the walker moves to the next entry.
C8_ZeroSkipped == [][C8_Step]_vars

C8_Witness ==
    /\ pc = "done"
    /\ index = 2
    /\ ImageWord(ImageFet, 1) = <<0, 0, 0, 255>>
    /\ ImageWord(ImageFet, 2) = <<0, 0, 0, 0>>
    /\ directories = <<>>
    /\ firmwares = <<>>

C9_State ==
    /\ unique_entries = {}
    /\ lookup.result = NotFound

C9_Step ==
    lookup' # lookup =>
        /\ directories' = directories
        /\ firmwares' = firmwares
        /\ unique_entries' = unique_entries
        /\ \/ lookup'.result = NotFound
           \/ /\ lookup'.result[1] \in unique_entries
              /\ lookup'.result[1].type = lookup'.type

\* C9: get_entry_by_type returns an object of unique_entries with the asked
\* type or not-found; the parse never fills unique_entries, so every call
\* returns not-found, also for a type that an object of directories or
\* firmwares carries; a call changes none of the three collections.
C9_Lookup == [] C9_State /\ [][C9_Step]_vars

C9_Witness ==
    /\ pc = "done"
    /\ lookup.type = "PSP_DIR"
    /\ lookup.result = NotFound
    /\ \E i \in 1..Len(directories) : directories[i].type = "PSP_DIR"

\* C5: on an image without FF FF FF FF AA 55 AA 55 the fatal error is reported
\* once and construction stops: no table window, no entry walked, no window
\* inspected, no Directory, no Firmware, no Blob.  The fatal error is reported
\* in no other case.
C5_MissingMagic ==
    /\ errors <= 1
    /\ (errors = 1 => ~ImageHasTable)
    /\ (~ImageHasTable /\ pc \notin {"agesa", "find"}) =>
          /\ pc = "exited"
          /\ errors = 1
          /\ warnings = 0
          /\ ~firmware_entry_table.present
          /\ index = 0
          /\ window = NoWindow
          /\ directories = <<>>
          /\ firmwares = <<>>

C5_Witness ==
    /\ pc = "exited"
    /\ errors = 1
    /\ ~ImageHasTable

\* C7: the size scan stops at the first FF FF FF FF on the 4-byte stride or at
\* the end of the buffer: the table never reaches past the end of the buffer.
C7_ScanBounded ==
    (pc \in {"scan", "shift"} \/ Parsed) => fet_offset + fet_size <= BufLen

\* C6: an entry whose address plus 128 bytes exceeds the buffer is refused
\* before its window is made: no short window is ever inspected, and the parse
\* does not crash.
C6_BoundsChecked ==
    /\ pc # "crashed"
    /\ (window # NoWindow => Len(window) = 128)

=============================================================================
